---- MODULE Spec2Model ----
(***************************************************************************)
(* Verification model of Tulpar Express (MeShele/tulpar).                  *)
(*                                                                         *)
(* Part I  - the autopost scheduler (SchedulerService on APScheduler) and  *)
(*           the ten-stage DailyPipeline.run it launches.                  *)
(* Part II - the O-Dengi payment webhook and process_payment_success       *)
(*           ("finalise") against the payments table.                      *)
(* Part III - the marketplace client's daily request counter.              *)
(* Part IV - CurrencyService.get_rate.                                     *)
(* Part V  - InstagramService.publish_carousel.                            *)
(* Part VI - what stages 3 to 7 of the pipeline do to the products.        *)
(* Part VII - ODengiAPI.check_status.                                      *)
(***************************************************************************)
EXTENDS Integers, Sequences, FiniteSets, TLC

(***************************************************************************)
(* Bounds of the model.                                                    *)
(***************************************************************************)
MaxDay == 3
MaxSlots == 2
MaxManual == 1
NumCategories == 2
MaxInvocations == 2
MaxCallers == 2
MaxDate == 1
MaxRate == 3
MaxPosts == 2
MaxImages == 3
MaxProducts == 3
MaxTopLimit == 2
MaxCards == 11
MaxFailed == 1
MaxExcess == 1

(***************************************************************************)
(* Program constants.                                                      *)
(***************************************************************************)
max_instances == 1
DAILY_RATE_LIMIT == 100
stop_after_attempt == 3
MIN_CAROUSEL_ITEMS == 2
MAX_CAROUSEL_ITEMS == 10
MAX_CONTAINER_CHECKS == 30
MAX_CAPTION_LENGTH == 1024
MAX_MEDIA_GROUP_SIZE == 10

Slots == 1..MaxSlots
Categories == 1..NumCategories
Procs == 1..2
PaymentIds == {"p1"}
Callers == 1..MaxCallers
Rates == 1..MaxRate

Min(a, b) == IF a < b THEN a ELSE b
Max(a, b) == IF a > b THEN a ELSE b

VARIABLES
    \* ---- Part I: scheduler and pipeline
    is_running,     \* SchedulerService._is_running
    clock,          \* current day; the cron trigger has one fire time per day
    next_run_time,  \* the daily job's next_run_time (0: no job scheduled)
    instances,      \* running instances counted by the single-instance gate
    slots,          \* job instances / pipeline runs in flight
    last_event,     \* what became of the last firing: submitted or dropped
    manual_used,    \* operator triggers issued so far
    last_manual,    \* what became of the last operator trigger
    cached,         \* CachedProductSet per category key: non-empty or not
    posts,          \* rows of the posts table
    run_raised,     \* a scheduled run has ended with an exception
    \* ---- Part II: payments
    payments,       \* payments table, by payment_id
    fin,            \* invocations of process_payment_success in flight
    invocations,    \* invocations started so far
    admin_notes,    \* operator notification rounds sent, by payment_id
    user_msgs,      \* success messages sent to the user, by payment_id
    row_updates,    \* UPDATEs applied to the row, by payment_id
    last_webhook,   \* the last webhook payload handled and what became of it
    qr_msgs,        \* the QR message in the user's chat, by payment_id
    \* ---- Part III: marketplace client
    request_count,  \* PinduoduoService._request_count
    request_date,   \* PinduoduoService._request_date
    today,          \* date.today()
    calls,          \* calls of fetch_products in flight
    uncounted,      \* requests sent on the current date that the counter
                    \* missed, counted up to MaxExcess
    \* ---- Part IV: currency service
    rate_cache,     \* CurrencyService._rate_cache["CNY_KGS"] (0: no entry)
    db_rate,        \* latest currency_rates row for CNY/KGS (0: no row)
    lookup,         \* the call of get_rate in flight
    \* ---- Part V: Instagram carousel
    carousel,       \* the call of publish_carousel in flight
    \* ---- Part VI: pipeline data
    stage3,         \* one call of stage 3 and what it returned
    album,          \* stages 4 to 7 of one run: products to media group
    \* ---- Part VII: payment status check
    status_check    \* one call of ODengiAPI.check_status and its result

schedVars == <<is_running, clock, next_run_time, instances, slots, last_event,
               manual_used, last_manual, cached, posts, run_raised>>
payVars == <<payments, fin, invocations, admin_notes, user_msgs, row_updates,
             last_webhook, qr_msgs>>
clientVars == <<request_count, request_date, today, calls, uncounted>>
currencyVars == <<rate_cache, db_rate, lookup>>
dataVars == <<stage3, album, status_check>>
nonSchedVars == <<payVars, clientVars, currencyVars, carousel, dataVars>>
nonPayVars == <<schedVars, clientVars, currencyVars, carousel, dataVars>>
nonClientVars == <<schedVars, payVars, currencyVars, carousel, dataVars>>
nonCurrencyVars == <<schedVars, payVars, clientVars, carousel, dataVars>>
nonCarouselVars == <<schedVars, payVars, clientVars, currencyVars, dataVars>>
nonDataVars == <<schedVars, payVars, clientVars, currencyVars, carousel>>
nonStage3Vars == <<nonDataVars, album, status_check>>
nonAlbumVars == <<nonDataVars, stage3, status_check>>
nonStatusVars == <<nonDataVars, stage3, album>>
nonPostVars == <<is_running, clock, next_run_time, instances, slots,
                 last_event, manual_used, last_manual, cached, run_raised,
                 payVars, clientVars, currencyVars, carousel, dataVars>>
vars == <<is_running, clock, next_run_time, instances, slots, last_event,
          manual_used, last_manual, cached, posts, run_raised,
          payments, fin, invocations, admin_notes, user_msgs, row_updates,
          last_webhook, qr_msgs,
          request_count, request_date, today, calls, uncounted,
          rate_cache, db_rate, lookup, carousel, dataVars>>

(***************************************************************************)
(* Part I.  Scheduler.                                                     *)
(***************************************************************************)

\* A slot that holds no job instance and no run.
IdleSlot ==
    [pc |-> "idle", origin |-> "none", run_times |-> <<>>,
     covers |-> 0, runs |-> 0,
     instagram |-> FALSE, category_results |-> <<>>, all_products |-> FALSE,
     cache_used |-> {}, rate_source |-> "none",
     stages |-> <<>>, fallbacks_used |-> <<>>,
     telegram_id |-> 0, instagram_id |-> 0, post |-> "none",
     published |-> {}, notified |-> {}, result |-> "none"]

\* add_job(..., max_instances=1): the executor refuses to start an instance
\* of the job while max_instances of them are running.
MaxInstancesReached_Never(n) == FALSE
MaxInstancesReached(n) == n >= max_instances

\* add_job(..., coalesce=True): of the run times that are due at a wake-up
\* only the latest is handed to the executor.
coalesce == TRUE
DueRunTimes(from, now) == [i \in 1..(now - from + 1) |-> from + i - 1]
RunTimes_Replay(from, now) == DueRunTimes(from, now)
RunTimes(from, now) ==
    LET due == DueRunTimes(from, now)
    IN  IF coalesce /\ Len(due) > 0 THEN <<due[Len(due)]>> ELSE due

\* src.autopost.main.execute_pipeline is not part of the available sources;
\* the specification routes operator triggers through the same
\* single-instance gate as scheduled firings.
ExecutePipelineAdmits_Always(n) == TRUE
ExecutePipelineAdmits(n) == ~MaxInstancesReached(n)

\* The executor gives the instance back when the job function has returned,
\* whether it returned normally or raised (the exception is logged).
InstancesAfterJob_ErrorLeaks(n, result) == IF result = "error" THEN n ELSE n - 1
InstancesAfterJob(n, result) == n - 1

Active(s) == slots[s].pc \notin {"idle", "job"}
ActiveRuns == {s \in Slots : Active(s)}
ScheduledRuns == {s \in ActiveRuns : slots[s].origin = "sched"}

SchedInit ==
    /\ is_running = FALSE
    /\ clock = 0
    /\ next_run_time = 0
    /\ instances = 0
    /\ slots = [s \in Slots |-> IdleSlot]
    /\ last_event = "none"
    /\ manual_used = 0
    /\ last_manual = "none"
    /\ cached \in {[c \in Categories |-> b] : b \in BOOLEAN}
    /\ posts = <<>>
    /\ run_raised = FALSE

\* SchedulerService.start
Start ==
    /\ ~is_running
    /\ is_running' = TRUE
    /\ next_run_time' = clock + 1
    /\ UNCHANGED <<clock, instances, slots, last_event, manual_used,
                   last_manual, cached, posts, run_raised>>
    /\ UNCHANGED nonSchedVars

\* A day passes; the scheduler may or may not get to run in between.
Tick ==
    /\ clock < MaxDay
    /\ clock' = clock + 1
    /\ UNCHANGED <<is_running, next_run_time, instances, slots, last_event,
                   manual_used, last_manual, cached, posts, run_raised>>
    /\ UNCHANGED nonSchedVars

\* The scheduler wakes up with the daily job due (possibly several fire
\* times behind) and submits it to the executor; the job's next run time
\* moves past now either way.
ProcessJobs ==
    /\ is_running
    /\ next_run_time > 0
    /\ next_run_time <= clock
    /\ LET missed == clock - next_run_time + 1
           rts == RunTimes(next_run_time, clock)
       IN  IF MaxInstancesReached(instances)
           THEN /\ last_event' = "max_instances"
                /\ UNCHANGED <<instances, slots>>
           ELSE \E s \in Slots :
                /\ slots[s].pc = "idle"
                /\ \A t \in Slots : t < s => slots[t].pc # "idle"
                /\ slots' = [slots EXCEPT ![s] =
                        [IdleSlot EXCEPT !.pc = "job", !.origin = "sched",
                                         !.run_times = rts,
                                         !.covers = missed]]
                /\ instances' = instances + 1
                /\ last_event' = "submitted"
    /\ next_run_time' = clock + 1
    /\ UNCHANGED <<is_running, clock, manual_used, last_manual, cached,
                   posts, run_raised>>
    /\ UNCHANGED nonSchedVars

\* The executor's loop over the run times of a submitted job instance
\* (no misfire_grace_time is passed to add_job, so the library default
\* applies: a run time served after the grace period is reported missed and
\* is not run).  When the run times are exhausted the instance is released.
JobStep(s) ==
    /\ slots[s].pc = "job"
    /\ IF slots[s].run_times = <<>>
       THEN /\ slots' = [slots EXCEPT ![s] = IdleSlot]
            /\ instances' = InstancesAfterJob(instances, slots[s].result)
       ELSE \E late \in BOOLEAN :
            /\ Head(slots[s].run_times) < clock => late
            /\ slots' = [slots EXCEPT ![s] =
                  IF late
                  THEN [@ EXCEPT !.run_times = Tail(@)]
                  ELSE [@ EXCEPT !.pc = "s1", !.run_times = Tail(@),
                                 !.runs = @ + 1, !.instagram = FALSE]]
            /\ UNCHANGED instances
    /\ UNCHANGED <<is_running, clock, next_run_time, last_event, manual_used,
                   last_manual, cached, posts, run_raised>>
    /\ UNCHANGED nonSchedVars

\* handle_run_command / handle_admin_run: an operator asks for a run.
ManualRun ==
    /\ manual_used < MaxManual
    /\ manual_used' = manual_used + 1
    /\ IF ExecutePipelineAdmits(instances)
       THEN \E s \in Slots, ig \in BOOLEAN :
            /\ slots[s].pc = "idle"
            /\ \A t \in Slots : t < s => slots[t].pc # "idle"
            /\ slots' = [slots EXCEPT ![s] =
                    [IdleSlot EXCEPT !.pc = "s1", !.origin = "manual",
                                     !.runs = 1, !.instagram = ig]]
            /\ instances' = instances + 1
            /\ last_manual' = "started"
       ELSE /\ last_manual' = "dropped"
            /\ UNCHANGED <<slots, instances>>
    /\ UNCHANGED <<is_running, clock, next_run_time, last_event, cached,
                   posts, run_raised>>
    /\ UNCHANGED nonSchedVars

(***************************************************************************)
(* Part I.  DailyPipeline.run, one action per stage.                       *)
(***************************************************************************)

StageResult(k, ok) == [stage |-> k, success |-> ok]

\* PipelineStage values, by position in the run.
StageName(k) ==
    IF k = 1 THEN "fetch_products" ELSE IF k = 2 THEN "convert_prices"
    ELSE IF k = 3 THEN "filter_products" ELSE IF k = 4 THEN "generate_content"
    ELSE IF k = 5 THEN "download_images" ELSE IF k = 6 THEN "create_cards"
    ELSE IF k = 7 THEN "publish_telegram" ELSE IF k = 8 THEN "publish_instagram"
    ELSE IF k = 9 THEN "save_to_db" ELSE IF k = 10 THEN "notify_owner"
    ELSE "unknown"

\* What NotificationService is asked to send to the owners.
SuccessNote == [kind |-> "success", stage |-> ""]
ErrorNote(stage) == [kind |-> "error", stage |-> stage]

\* PipelineResult.failed_stage: the first stage recorded as failed, 0 if none.
RECURSIVE FirstFailed(_)
FirstFailed(stages) ==
    IF stages = <<>> THEN 0
    ELSE IF ~Head(stages).success THEN Head(stages).stage
    ELSE FirstFailed(Tail(stages))

failed_stage(s) == FirstFailed(slots[s].stages)

Contains(seq, x) == \E i \in 1..Len(seq) : seq[i] = x

pipeUnchanged ==
    /\ UNCHANGED <<is_running, clock, next_run_time, instances, last_event,
                   manual_used, last_manual, cached, run_raised>>
    /\ UNCHANGED nonSchedVars

PcAfter(k) ==
    IF k = 1 THEN "s2" ELSE IF k = 2 THEN "s3" ELSE IF k = 3 THEN "s4"
    ELSE IF k = 4 THEN "s5" ELSE IF k = 5 THEN "s6" ELSE IF k = 6 THEN "s7"
    ELSE IF k = 7 THEN "s8" ELSE IF k = 8 THEN "s9" ELSE IF k = 9 THEN "s10"
    ELSE "fin"

\* _build_failed_result: the run returns success=False; nothing else happens.
BuildFailedResult_Continue(r, k) ==
    [r EXCEPT !.stages = Append(@, StageResult(k, FALSE)), !.pc = PcAfter(k)]
BuildFailedResult(r, k) ==
    [r EXCEPT !.stages = Append(@, StageResult(k, FALSE)),
              !.result = "failed", !.pc = "done"]

\* run_autopost_pipeline: an exception raised while the callback sets the
\* run up (HTTP client, database session, services) is caught and logged by
\* the callback itself; the run ends there.
CallbackRaises(s) ==
    /\ slots[s].pc = "s1"
    /\ slots[s].origin = "sched"
    /\ slots[s].category_results = <<>>
    /\ slots' = [slots EXCEPT ![s].result = "error", ![s].pc = "done"]
    /\ run_raised' = TRUE
    /\ UNCHANGED <<is_running, clock, next_run_time, instances, last_event,
                   manual_used, last_manual, cached, posts>>
    /\ UNCHANGED nonSchedVars

\* Stage 1, _fetch_products_dual: one fetch per category key.  A fetch that
\* returns nothing or raises (RateLimitExceededError included) counts 0
\* products for the key and the loop goes on.
FetchCategory(s) ==
    /\ slots[s].pc = "s1"
    /\ Len(slots[s].category_results) < NumCategories
    /\ \E o \in {"ok", "empty", "error"} :
         slots' = [slots EXCEPT
                     ![s].category_results = Append(@, o),
                     ![s].all_products = @ \/ (o = "ok")]
    /\ UNCHANGED posts
    /\ pipeUnchanged

FetchDone(s) ==
    /\ slots[s].pc = "s1"
    /\ Len(slots[s].category_results) = NumCategories
    /\ slots' = [slots EXCEPT ![s] =
          IF ~slots[s].all_products
          THEN BuildFailedResult(slots[s], 1)
          ELSE [slots[s] EXCEPT !.stages = Append(@, StageResult(1, TRUE)),
                                !.pc = "s2"]]
    /\ UNCHANGED posts
    /\ pipeUnchanged

\* Stage 2, _convert_prices: get_rate answers from its cache, from the
\* external endpoint or from the stored rate, and the prices are converted
\* with what it returned; without a rate (or on any exception) the stage
\* fails.  The stage takes no note of where the rate came from.
ConvertPrices(s) ==
    /\ slots[s].pc = "s2"
    /\ \E src \in {"cache", "api", "db", "failed"} :
         slots' = [slots EXCEPT ![s] =
            IF src = "failed"
            THEN BuildFailedResult(slots[s], 2)
            ELSE [slots[s] EXCEPT !.stages = Append(@, StageResult(2, TRUE)),
                                  !.rate_source = src,
                                  !.pc = "s3"]]
    /\ UNCHANGED posts
    /\ pipeUnchanged

\* Stages 3..6 (_filter_products, _generate_content, _download_images,
\* _create_cards): each returns a StageResult; an exception inside the
\* stage is caught by the stage and reported the same way as a failure.
PcOf(k) == IF k = 2 THEN "s2" ELSE IF k = 3 THEN "s3" ELSE IF k = 4 THEN "s4"
           ELSE IF k = 5 THEN "s5" ELSE "s6"

Stage(s, k) ==
    /\ slots[s].pc = PcOf(k)
    /\ \E ok \in BOOLEAN :
         slots' = [slots EXCEPT ![s] =
            IF ok
            THEN [slots[s] EXCEPT !.stages = Append(@, StageResult(k, TRUE)),
                                  !.pc = PcAfter(k)]
            ELSE BuildFailedResult(slots[s], k)]
    /\ UNCHANGED posts
    /\ pipeUnchanged

\* Stage 7, _publish_telegram: intro message (its failure is only logged),
\* then the media group.
PublishTelegram(s) ==
    /\ slots[s].pc = "s7"
    /\ \E intro \in BOOLEAN, media \in BOOLEAN :
         LET pub == slots[s].published
                      \cup (IF intro THEN {"intro"} ELSE {})
                      \cup (IF media THEN {"album"} ELSE {})
         IN slots' = [slots EXCEPT ![s] =
              IF media
              THEN [slots[s] EXCEPT !.stages = Append(@, StageResult(7, TRUE)),
                                    !.telegram_id = 1, !.published = pub,
                                    !.pc = "s8"]
              ELSE [BuildFailedResult(slots[s], 7) EXCEPT !.published = pub]]
    /\ UNCHANGED posts
    /\ pipeUnchanged

\* Stage 8, _publish_instagram: skipped (reported as success) when no
\* Instagram service is configured; otherwise its failure is recorded and
\* the run continues.
PublishInstagram(s) ==
    /\ slots[s].pc = "s8"
    /\ IF ~slots[s].instagram
       THEN slots' = [slots EXCEPT ![s].stages = Append(@, StageResult(8, TRUE)),
                                   ![s].pc = "s9"]
       ELSE \E ok \in BOOLEAN :
            slots' = [slots EXCEPT
                ![s].stages = Append(@, StageResult(8, ok)),
                ![s].instagram_id = IF ok THEN 1 ELSE 0,
                ![s].published = IF ok THEN @ \cup {"instagram"} ELSE @,
                ![s].pc = "s9"]
    /\ UNCHANGED posts
    /\ pipeUnchanged

\* The status _save_to_db gives the row (0 stands for None).
PostStatusFor_Published(telegram_id, instagram_id) == "published"
PostStatusFor(telegram_id, instagram_id) ==
    IF telegram_id # 0 /\ instagram_id # 0 THEN "published"
    ELSE IF telegram_id # 0
         THEN (IF instagram_id = 0 THEN "instagram_failed" ELSE "telegram_only")
         ELSE "pending"

\* Stage 9, _save_to_db: a failure is recorded and the run continues.
SaveToDb(s) ==
    /\ slots[s].pc = "s9"
    /\ \E ok \in BOOLEAN :
         LET st == PostStatusFor(slots[s].telegram_id, slots[s].instagram_id)
         IN  /\ slots' = [slots EXCEPT
                    ![s].stages = Append(@, StageResult(9, ok)),
                    ![s].post = IF ok THEN st ELSE @,
                    ![s].pc = "s10"]
             /\ posts' = IF ok
                         THEN Append(posts,
                                [status |-> st,
                                 telegram_message_id |-> slots[s].telegram_id,
                                 instagram_post_id |-> slots[s].instagram_id,
                                 mirror_attempted |-> slots[s].instagram])
                         ELSE posts
    /\ pipeUnchanged

\* Stage 10, _notify_owner.
NotifyOwner(s) ==
    /\ slots[s].pc = "s10"
    /\ \E ok \in BOOLEAN :
         slots' = [slots EXCEPT
             ![s].stages = Append(@, StageResult(10, ok)),
             ![s].notified = IF ok THEN @ \cup {SuccessNote} ELSE @,
             ![s].pc = "fin"]
    /\ UNCHANGED posts
    /\ pipeUnchanged

\* The tail of run(): Instagram fallback tracking, the partial-failure
\* notification and the successful PipelineResult.
Finish_NoTracking(s) ==
    /\ slots[s].pc = "fin"
    /\ LET r == slots[s]
       IN slots' = [slots EXCEPT ![s] =
            [r EXCEPT !.notified = IF r.fallbacks_used # <<>>
                                   THEN @ \cup {ErrorNote("fallback")} ELSE @,
                      !.result = "ok", !.pc = "done"]]
    /\ UNCHANGED posts
    /\ pipeUnchanged
Finish(s) ==
    /\ slots[s].pc = "fin"
    /\ LET r == slots[s]
           fb == IF r.instagram_id = 0 /\ r.telegram_id # 0
                    /\ ~Contains(r.fallbacks_used, "instagram_skipped")
                 THEN Append(r.fallbacks_used, "instagram_skipped")
                 ELSE r.fallbacks_used
       IN slots' = [slots EXCEPT ![s] =
            [r EXCEPT !.fallbacks_used = fb,
                      !.notified = IF fb # <<>>
                                   THEN @ \cup {ErrorNote("fallback")} ELSE @,
                      !.result = "ok", !.pc = "done"]]
    /\ UNCHANGED posts
    /\ pipeUnchanged

\* The callback returns: a scheduled run goes back to the executor's loop,
\* an operator's run releases the gate.
Return(s) ==
    /\ slots[s].pc = "done"
    /\ IF slots[s].origin = "sched"
       THEN /\ slots' = [slots EXCEPT ![s] =
                  [IdleSlot EXCEPT !.pc = "job", !.origin = "sched",
                                   !.run_times = slots[s].run_times,
                                   !.covers = slots[s].covers,
                                   !.runs = slots[s].runs,
                                   !.result = slots[s].result]]
            /\ UNCHANGED instances
       ELSE /\ slots' = [slots EXCEPT ![s] = IdleSlot]
            /\ instances' = instances - 1
    /\ UNCHANGED <<is_running, clock, next_run_time, last_event,
                   manual_used, last_manual, cached, posts, run_raised>>
    /\ UNCHANGED nonSchedVars

(***************************************************************************)
(* Part I.  PostRepository: the posts table on its own.  mirror_attempted  *)
(* is not a column: it remembers whether stage 8 had a service to call.    *)
(***************************************************************************)

\* _save_to_db + create_post for the ids stages 7 and 8 can hand over:
\* stage 9 is reached only with a telegram id; the instagram id is None
\* when the service is not configured or its publish failed.
CreatePost ==
    /\ Len(posts) < MaxPosts
    /\ \E attempted \in BOOLEAN, ig \in {0, 1} :
         /\ ig # 0 => attempted
         /\ posts' = Append(posts,
                [status |-> PostStatusFor(1, ig),
                 telegram_message_id |-> 1,
                 instagram_post_id |-> ig,
                 mirror_attempted |-> attempted])
    /\ UNCHANGED nonPostVars

\* PostRepository.update_instagram_id
UpdateInstagramId(i) ==
    /\ i \in 1..Len(posts)
    /\ posts' = [posts EXCEPT ![i].instagram_post_id = 2,
                              ![i].status = "published"]
    /\ UNCHANGED nonPostVars

\* PostRepository.mark_instagram_failed
MarkInstagramFailed(i) ==
    /\ i \in 1..Len(posts)
    /\ posts' = [posts EXCEPT ![i].status = "instagram_failed"]
    /\ UNCHANGED nonPostVars

\* PostRepository.mark_telegram_only
MarkTelegramOnly(i) ==
    /\ i \in 1..Len(posts)
    /\ posts' = [posts EXCEPT ![i].status = "telegram_only"]
    /\ UNCHANGED nonPostVars

(***************************************************************************)
(* Part II.  Payments: webhook, signature, finalise.                       *)
(***************************************************************************)

\* config.dengi_password and a secret that is not ours.
Password == "k"
Keys == {"k", "x"}

OrderIds == PaymentIds \cup {"absent"}
\* status_pay as it arrives: absent, "0", "1", a number that is no
\* PaymentStatus, or a JSON array.
RawStatuses == {"absent", "0", "1", "7", "[]"}

\* HMAC-MD5 over the compact JSON of the payload without its hash field,
\* as a value determined by the key and by every signed field.
Sign(order_id, status_pay, key) ==
    [kind |-> "mac", key |-> key, order_id |-> order_id,
     status_pay |-> status_pay]
NoHash == [kind |-> "absent", key |-> "", order_id |-> "", status_pay |-> ""]
EmptyHash == [kind |-> "empty", key |-> "", order_id |-> "", status_pay |-> ""]

\* Hash fields a sender can attach to a payload: none, an empty one, a MAC
\* under either key, or the MAC taken from the same order while its
\* status_pay was still 0.
HashesFor(order_id, status_pay) ==
    {NoHash, EmptyHash, Sign(order_id, "0", Password)}
        \cup {Sign(order_id, status_pay, k) : k \in Keys}

WebhookPayloads ==
    UNION {{[order_id |-> o, status_pay |-> st, hash |-> h] :
              h \in HashesFor(o, st)} : <<o, st>> \in OrderIds \X RawStatuses}

NoPayload == [order_id |-> "absent", status_pay |-> "absent", hash |-> NoHash]

\* ODengiAPI.verify_callback_signature
verify_callback_signature_Lax(data) == TRUE
verify_callback_signature(data) ==
    IF data.hash.kind \in {"absent", "empty"}
    THEN TRUE
    ELSE data.hash = Sign(data.order_id, data.status_pay, Password)

\* PaymentStatus(int(status_pay)); None ("none") when absent or unknown
\* (ValueError is caught); int() of a value that is neither a number nor a
\* string raises TypeError ("error").
DecodeStatusPay_NonZero(raw) ==
    IF raw \in {"1", "7"} THEN "PAID"
    ELSE IF raw = "0" THEN "PENDING"
    ELSE IF raw = "[]" THEN "error"
    ELSE "none"
DecodeStatusPay(raw) ==
    IF raw = "1" THEN "PAID"
    ELSE IF raw = "0" THEN "PENDING"
    ELSE IF raw = "[]" THEN "error"
    ELSE "none"

\* ODengiAPI.parse_callback: None (not valid) when verification fails or
\* when decoding raises.
parse_callback_RequireHash(data) ==
    IF \/ data.hash.kind = "absent"
       \/ ~verify_callback_signature(data)
       \/ DecodeStatusPay(data.status_pay) = "error"
    THEN [valid |-> FALSE, order_id |-> "absent", status |-> "none"]
    ELSE [valid |-> TRUE, order_id |-> data.order_id,
          status |-> DecodeStatusPay(data.status_pay)]
parse_callback(data) ==
    IF \/ ~verify_callback_signature(data)
       \/ DecodeStatusPay(data.status_pay) = "error"
    THEN [valid |-> FALSE, order_id |-> "absent", status |-> "none"]
    ELSE [valid |-> TRUE, order_id |-> data.order_id,
          status |-> DecodeStatusPay(data.status_pay)]

IdleFin ==
    [pc |-> "idle", payment_id |-> "absent", origin |-> "none",
     message_id |-> 0, ret |-> FALSE]

NoRow == [status |-> "NONE", message_id |-> 0]

PayInit ==
    /\ payments = [p \in PaymentIds |-> NoRow]
    /\ fin = [i \in Procs |-> IdleFin]
    /\ invocations = 0
    /\ admin_notes = [p \in PaymentIds |-> 0]
    /\ user_msgs = [p \in PaymentIds |-> 0]
    /\ row_updates = [p \in PaymentIds |-> 0]
    /\ last_webhook = [data |-> NoPayload, outcome |-> "none"]
    /\ qr_msgs = [p \in PaymentIds |-> "none"]

\* handle_pay_button: the invoice is created upstream and the row is
\* inserted with the table's default status and no message_id;
\* create_payment swallows a storage error, in which case no row exists.
\* Then the QR message (or the text with the link) is sent to the user; the
\* id of the message sent is not kept.
CreateInvoice(p) ==
    /\ payments[p].status = "NONE"
    /\ qr_msgs[p] = "none"
    /\ \E saved \in BOOLEAN, sent \in BOOLEAN :
         /\ payments' = IF saved
                         THEN [payments EXCEPT ![p] =
                                  [status |-> "PENDING", message_id |-> 0]]
                         ELSE payments
         /\ qr_msgs' = IF sent THEN [qr_msgs EXCEPT ![p] = "shown"]
                        ELSE qr_msgs
    /\ UNCHANGED <<fin, invocations, admin_notes, user_msgs, row_updates,
                   last_webhook>>
    /\ UNCHANGED nonPayVars

\* DatabaseService.update_payment_message_id: UPDATE ... WHERE payment_id.
update_payment_message_id(row, message_id) ==
    IF row.status = "NONE" THEN row ELSE [row EXCEPT !.message_id = message_id]

\* The arrival notification of handlers/excel.py: the invoice is created
\* and its row inserted, the notification with the QR code is sent, and
\* when it was sent its message id is written to the row.
ArrivalInvoice(p) ==
    /\ payments[p].status = "NONE"
    /\ qr_msgs[p] = "none"
    /\ \E saved \in BOOLEAN, sent \in BOOLEAN :
         LET row == IF saved THEN [status |-> "PENDING", message_id |-> 0]
                    ELSE payments[p]
         IN  /\ payments' = [payments EXCEPT ![p] =
                    IF sent THEN update_payment_message_id(row, 1) ELSE row]
             /\ qr_msgs' = IF sent THEN [qr_msgs EXCEPT ![p] = "shown"]
                            ELSE qr_msgs
    /\ UNCHANGED <<fin, invocations, admin_notes, user_msgs, row_updates,
                   last_webhook>>
    /\ UNCHANGED nonPayVars

\* handle_payment_webhook up to the call of process_payment_success.
Webhook(data) ==
    LET parsed == parse_callback(data)
    IN  /\ IF ~parsed.valid
           THEN /\ last_webhook' = [data |-> data, outcome |-> "rejected"]
                /\ UNCHANGED <<fin, invocations>>
           ELSE IF parsed.order_id = "absent"
           THEN /\ last_webhook' = [data |-> data, outcome |-> "missing_id"]
                /\ UNCHANGED <<fin, invocations>>
           ELSE IF parsed.status = "PAID"
           THEN /\ invocations < MaxInvocations
                /\ \E i \in Procs :
                     /\ fin[i].pc = "idle"
                     /\ \A j \in Procs : j < i => fin[j].pc # "idle"
                     /\ fin' = [fin EXCEPT ![i] =
                            [IdleFin EXCEPT !.pc = "get",
                                            !.payment_id = parsed.order_id,
                                            !.origin = "webhook"]]
                /\ invocations' = invocations + 1
                /\ last_webhook' = [data |-> data, outcome |-> "finalise"]
           ELSE /\ last_webhook' = [data |-> data, outcome |-> "ignored"]
                /\ UNCHANGED <<fin, invocations>>
        /\ UNCHANGED <<payments, admin_notes, user_msgs, row_updates,
                       qr_msgs>>
        /\ UNCHANGED nonPayVars

\* confirm_payment_cmd: an operator confirms a payment by hand.
ConfirmPayment(p) ==
    /\ invocations < MaxInvocations
    /\ \E i \in Procs :
         /\ fin[i].pc = "idle"
         /\ \A j \in Procs : j < i => fin[j].pc # "idle"
         /\ fin' = [fin EXCEPT ![i] =
                [IdleFin EXCEPT !.pc = "get", !.payment_id = p,
                                !.origin = "admin"]]
    /\ invocations' = invocations + 1
    /\ UNCHANGED <<payments, admin_notes, user_msgs, row_updates,
                   last_webhook, qr_msgs>>
    /\ UNCHANGED nonPayVars

\* process_payment_success, first await: get_payment_by_id and the checks
\* on the row that was read.
FinGet(i) ==
    /\ fin[i].pc = "get"
    /\ LET row == payments[fin[i].payment_id]
       IN  fin' = [fin EXCEPT ![i] =
             IF row.status = "NONE"
             THEN [@ EXCEPT !.pc = "done", !.ret = FALSE]
             ELSE IF row.status = "PAID"
             THEN [@ EXCEPT !.pc = "done", !.ret = TRUE]
             ELSE [@ EXCEPT !.pc = "update",
                            !.message_id = row.message_id]]
    /\ UNCHANGED <<payments, invocations, admin_notes, user_msgs,
                   row_updates, last_webhook, qr_msgs>>
    /\ UNCHANGED nonPayVars

\* DatabaseService.update_payment_status: UPDATE ... WHERE payment_id = $1;
\* a storage error is logged and False is returned.
update_payment_status(row, ok) ==
    IF ok THEN [row EXCEPT !.status = "PAID"] ELSE row

\* process_payment_success, second await: the update, whose outcome the
\* caller does not look at.
FinUpdate(i) ==
    /\ fin[i].pc = "update"
    /\ \E ok \in BOOLEAN :
         LET p == fin[i].payment_id
         IN  /\ payments' = [payments EXCEPT
                                ![p] = update_payment_status(@, ok)]
             /\ row_updates' = [row_updates EXCEPT
                                ![p] = IF ok THEN @ + 1 ELSE @]
    /\ fin' = [fin EXCEPT ![i].pc = "notify"]
    /\ UNCHANGED <<invocations, admin_notes, user_msgs, last_webhook,
                   qr_msgs>>
    /\ UNCHANGED nonPayVars

\* process_payment_success, the rest: the QR message is deleted when the
\* row that was read had a message_id (a failure is logged), then the
\* success message to the user (its failure is logged), notification of
\* every operator, return True.
FinNotify(i) ==
    /\ fin[i].pc = "notify"
    /\ LET p == fin[i].payment_id
       IN  /\ \E deleted \in BOOLEAN :
                qr_msgs' = IF fin[i].message_id # 0 /\ deleted
                              /\ qr_msgs[p] = "shown"
                           THEN [qr_msgs EXCEPT ![p] = "deleted"]
                           ELSE qr_msgs
           /\ \E sent \in BOOLEAN :
                user_msgs' = [user_msgs EXCEPT ![p] = IF sent THEN @ + 1 ELSE @]
           /\ admin_notes' = [admin_notes EXCEPT ![p] = @ + 1]
    /\ fin' = [fin EXCEPT ![i].pc = "done", ![i].ret = TRUE]
    /\ UNCHANGED <<payments, invocations, row_updates, last_webhook>>
    /\ UNCHANGED nonPayVars

\* The caller gets the boolean back and answers.
FinReturn(i) ==
    /\ fin[i].pc = "done"
    /\ fin' = [fin EXCEPT ![i] = IdleFin]
    /\ UNCHANGED <<payments, invocations, admin_notes, user_msgs,
                   row_updates, last_webhook, qr_msgs>>
    /\ UNCHANGED nonPayVars

(***************************************************************************)
(* Part III.  Marketplace client: the daily request counter.  The Taobao   *)
(* client carries the same counter code as the Pinduoduo client.           *)
(***************************************************************************)

IdleCall == [pc |-> "idle", attempts |-> 0]

ClientInit ==
    /\ request_count = 0
    /\ request_date = 0
    /\ today = 0
    /\ calls = [c \in Callers |-> IdleCall]
    /\ uncounted = 0

\* _check_rate_limit: the counter starts again on a new date; the call is
\* refused when the counter has reached the limit.
check_rate_limit_OffByOne(count, rdate, now) ==
    LET c == IF now # rdate THEN 0 ELSE count
    IN  [count |-> c, date |-> now, raised |-> c > DAILY_RATE_LIMIT]
check_rate_limit(count, rdate, now) ==
    LET c == IF now # rdate THEN 0 ELSE count
    IN  [count |-> c, date |-> now, raised |-> c >= DAILY_RATE_LIMIT]

\* The calendar date changes.
DateChange ==
    /\ today < MaxDate
    /\ today' = today + 1
    /\ uncounted' = 0
    /\ UNCHANGED <<request_count, request_date, calls>>
    /\ UNCHANGED nonClientVars

\* fetch_products up to its first await: the rate limit check.
FetchProducts(c) ==
    /\ calls[c].pc = "idle"
    /\ LET r == check_rate_limit(request_count, request_date, today)
       IN  /\ request_count' = r.count
           /\ request_date' = r.date
           /\ calls' = [calls EXCEPT ![c].pc =
                           IF r.raised THEN "rate_limited" ELSE "get"]
    /\ UNCHANGED <<today, uncounted>>
    /\ UNCHANGED nonClientVars

\* One attempt of BaseService._request: the request goes upstream; a 5xx
\* answer or a connection error is retried up to stop_after_attempt
\* attempts, a timeout or a 4xx answer fails the call at once, and an
\* answer that arrives is counted by _increment_request_count.
HttpAttempt(c) ==
    /\ calls[c].pc = "get"
    /\ \E o \in {"ok", "retry", "fail"} :
         LET n == calls[c].attempts + 1
         IN  /\ calls' = [calls EXCEPT ![c] =
                    [pc |-> IF o = "ok" THEN "ok"
                            ELSE IF o = "retry" /\ n < stop_after_attempt
                                 THEN "get" ELSE "failed",
                     attempts |-> n]]
             /\ request_count' = IF o = "ok" THEN request_count + 1
                                  ELSE request_count
             /\ uncounted' = IF o = "ok" THEN uncounted
                              ELSE Min(uncounted + 1, MaxExcess)
    /\ UNCHANGED <<request_date, today>>
    /\ UNCHANGED nonClientVars

\* fetch_products returns its ServiceResult or raises RateLimitExceededError.
FetchReturn(c) ==
    /\ calls[c].pc \in {"ok", "failed", "rate_limited"}
    /\ calls' = [calls EXCEPT ![c] = IdleCall]
    /\ UNCHANGED <<request_count, request_date, today, uncounted>>
    /\ UNCHANGED nonClientVars

(***************************************************************************)
(* Part IV.  CurrencyService.get_rate for the pair CNY/KGS.                *)
(***************************************************************************)

\* seen: what the cache held when the call began; api: how the external
\* fetch ended; rate: the rate returned (0: none).
IdleLookup ==
    [pc |-> "idle", consulted |-> <<>>, seen |-> 0, api |-> "none",
     rate |-> 0]

CurrencyInit ==
    /\ rate_cache = 0
    /\ db_rate = 0
    /\ lookup = IdleLookup

\* `cache_key in self._rate_cache`
CacheHit_Never(entry) == FALSE
CacheHit(entry) == entry # 0

\* The TTL of the cache entry runs out.
CacheExpire ==
    /\ rate_cache # 0
    /\ rate_cache' = 0
    /\ UNCHANGED <<db_rate, lookup>>
    /\ UNCHANGED nonCurrencyVars

\* get_rate, step 1: the in-memory cache.
GetRate ==
    /\ lookup.pc = "idle"
    /\ lookup' = IF CacheHit(rate_cache)
                  THEN [IdleLookup EXCEPT !.pc = "returned",
                                          !.consulted = <<"cache">>,
                                          !.seen = rate_cache,
                                          !.rate = rate_cache]
                  ELSE [IdleLookup EXCEPT !.pc = "api",
                                          !.consulted = <<"cache">>,
                                          !.seen = rate_cache]
    /\ UNCHANGED <<rate_cache, db_rate>>
    /\ UNCHANGED nonCurrencyVars

\* get_rate, step 2: _fetch_rate_from_api.  A rate that arrives is cached;
\* ServiceError, HTTPStatusError and ConnectError lead to the database;
\* any other exception leaves get_rate.
ApiFetch ==
    /\ lookup.pc = "api"
    /\ \/ \E r \in Rates :
            /\ rate_cache' = r
            /\ lookup' = [lookup EXCEPT !.pc = "save", !.api = "ok",
                                        !.consulted = Append(@, "api"),
                                        !.rate = r]
       \/ /\ lookup' = [lookup EXCEPT !.pc = "db", !.api = "failed",
                                       !.consulted = Append(@, "api")]
          /\ UNCHANGED rate_cache
       \/ /\ lookup' = [lookup EXCEPT !.pc = "raised", !.api = "raised",
                                       !.consulted = Append(@, "api")]
          /\ UNCHANGED rate_cache
    /\ UNCHANGED db_rate
    /\ UNCHANGED nonCurrencyVars

\* get_rate after a successful fetch: repository.save_rate; a storage
\* exception is not among those get_rate catches.
SaveRate ==
    /\ lookup.pc = "save"
    /\ \E ok \in BOOLEAN :
         /\ db_rate' = IF ok THEN lookup.rate ELSE db_rate
         /\ lookup' = IF ok THEN [lookup EXCEPT !.pc = "returned"]
                       ELSE [lookup EXCEPT !.pc = "raised", !.rate = 0]
    /\ UNCHANGED rate_cache
    /\ UNCHANGED nonCurrencyVars

\* get_rate, step 3: _fallback_to_db.  The latest stored rate, if there is
\* one, is cached and returned; otherwise the result is a failure.
FallbackToDb ==
    /\ lookup.pc = "db"
    /\ lookup' = [lookup EXCEPT !.pc = "returned",
                                !.consulted = Append(@, "db"),
                                !.rate = db_rate]
    /\ rate_cache' = IF db_rate # 0 THEN db_rate ELSE rate_cache
    /\ UNCHANGED db_rate
    /\ UNCHANGED nonCurrencyVars

\* The caller has the ServiceResult (or the exception).
LookupReturn ==
    /\ lookup.pc \in {"returned", "raised"}
    /\ lookup' = IdleLookup
    /\ UNCHANGED <<rate_cache, db_rate>>
    /\ UNCHANGED nonCurrencyVars

(***************************************************************************)
(* Part V.  InstagramService.publish_carousel.                             *)
(***************************************************************************)

\* images: len(image_urls); children: child containers created; checks:
\* status polls made; publish_calls: calls of media_publish issued.
IdleCarousel ==
    [pc |-> "idle", images |-> 0, children |-> 0, child_failed |-> FALSE,
     carousel_created |-> FALSE, checks |-> 0, status |-> "none",
     finished |-> FALSE,
     publish_calls |-> 0, result |-> "none"]

CarouselInit == carousel = IdleCarousel

Failed(c) == [c EXCEPT !.pc = "done", !.result = "failed"]

\* publish_carousel: the limits on the number of images.
PublishCarousel(n) ==
    /\ carousel.pc = "idle"
    /\ carousel' =
          IF n < MIN_CAROUSEL_ITEMS \/ n > MAX_CAROUSEL_ITEMS
          THEN Failed([IdleCarousel EXCEPT !.images = n])
          ELSE [IdleCarousel EXCEPT !.pc = "account", !.images = n]
    /\ UNCHANGED nonCarouselVars

\* get_instagram_account_id
GetAccountId ==
    /\ carousel.pc = "account"
    /\ \E ok \in BOOLEAN :
         carousel' = IF ok THEN [carousel EXCEPT !.pc = "children"]
                     ELSE Failed(carousel)
    /\ UNCHANGED nonCarouselVars

\* Step 1, one round of the loop: _create_image_container for the next
\* image; a failure ends the publish.
CreateImageContainer ==
    /\ carousel.pc = "children"
    /\ carousel.children < carousel.images
    /\ \E ok \in BOOLEAN :
         carousel' = IF ok THEN [carousel EXCEPT !.children = @ + 1]
                     ELSE Failed([carousel EXCEPT !.child_failed = TRUE])
    /\ UNCHANGED nonCarouselVars

\* Step 2: _create_carousel_container over the children.
CreateCarouselContainer ==
    /\ carousel.pc = "children"
    /\ carousel.children = carousel.images
    /\ \E ok \in BOOLEAN :
         carousel' = IF ok THEN [carousel EXCEPT !.pc = "wait",
                                                 !.carousel_created = TRUE]
                     ELSE Failed(carousel)
    /\ UNCHANGED nonCarouselVars

\* _wait_for_container after a poll that answered status, the n-th of the
\* call: where publish_carousel goes next.
wait_step_TimeoutPublishes(status, n) ==
    IF status = "FINISHED" THEN "publish"
    ELSE IF status \in {"ERROR", "failed"} THEN "done"
    ELSE IF n >= MAX_CONTAINER_CHECKS THEN "publish"
    ELSE "wait"
wait_step(status, n) ==
    IF status = "FINISHED" THEN "publish"
    ELSE IF status \in {"ERROR", "failed"} THEN "done"
    ELSE IF n >= MAX_CONTAINER_CHECKS THEN "done"
    ELSE "wait"

\* Step 3, one round of the loop: _check_container_status.
CheckContainerStatus ==
    /\ carousel.pc = "wait"
    /\ \E status \in {"FINISHED", "IN_PROGRESS", "ERROR", "failed"} :
         LET n == carousel.checks + 1
             to == wait_step(status, n)
         IN  carousel' = [carousel EXCEPT
                 !.checks = n,
                 !.status = status,
                 !.finished = (status = "FINISHED"),
                 !.pc = to,
                 !.result = IF to = "done" THEN "failed" ELSE @]
    /\ UNCHANGED nonCarouselVars

\* Step 4: _publish_container; an answer without a post id is a failure.
PublishContainer ==
    /\ carousel.pc = "publish"
    /\ \E ok \in BOOLEAN :
         carousel' = [carousel EXCEPT
                 !.publish_calls = @ + 1,
                 !.pc = "done",
                 !.result = IF ok THEN "ok" ELSE "failed"]
    /\ UNCHANGED nonCarouselVars

\* publish_carousel returns its ServiceResult to the caller.
CarouselReturn ==
    /\ carousel.pc = "done"
    /\ carousel' = [IdleCarousel EXCEPT !.result = carousel.result]
    /\ UNCHANGED nonCarouselVars

(***************************************************************************)
(* Specifications.                                                         *)
(***************************************************************************)

(***************************************************************************)
(* Part VI.  Pipeline data: what the stages do to the products.            *)
(***************************************************************************)

\* Product fields stage 3 reads.  rating is in tenths of a star.
Sources == {"pinduoduo", "taobao"}
Discounts == {0, 50}
Ratings == {40, 48}
SalesCounts == {1, 2}
ProductSet == [source : Sources, discount : Discounts, rating : Ratings,
               sales_count : SalesCounts]
ProductLists == UNION {[1..n -> ProductSet] : n \in 0..MaxProducts}

\* AUTOPOST_MIN_DISCOUNT, AUTOPOST_MIN_RATING (tenths), AUTOPOST_TOP_LIMIT.
MinDiscounts == {0, 40}
MinRatings == {0, 45}
TopLimits == 1..MaxTopLimit

\* seq[:n]
Take_All(seq, n) == seq
Take(seq, n) == SubSeq(seq, 1, Min(n, Len(seq)))

\* sorted(..., key=..., reverse=True) over <<key, item>> entries: descending
\* by key, entries with equal keys keep the order they came in.
InsertDesc(sorted, e) ==
    LET k == Cardinality({i \in 1..Len(sorted) : sorted[i].key >= e.key})
    IN  SubSeq(sorted, 1, k) \o <<e>> \o SubSeq(sorted, k + 1, Len(sorted))

RECURSIVE SortedDesc(_)
SortedDesc(es) ==
    IF es = <<>> THEN <<>>
    ELSE InsertDesc(SortedDesc(SubSeq(es, 1, Len(es) - 1)), es[Len(es)])

calculate_profitability(p) == p.discount * p.sales_count

Keyed(ps, by_profit) ==
    [i \in 1..Len(ps) |->
        [key |-> IF by_profit THEN calculate_profitability(ps[i])
                 ELSE ps[i].sales_count,
         item |-> ps[i]]]

Items(es) == [i \in 1..Len(es) |-> es[i].item]

sort_by_profitability(ps) == Items(SortedDesc(Keyed(ps, TRUE)))

\* DailyPipeline._filter_products: both floors for every product, sort by
\* profitability, the first top_limit.
filter_products(ps, min_discount, min_rating, top_limit) ==
    LET Pass(p) == p.discount >= min_discount /\ p.rating >= min_rating
    IN  Take(sort_by_profitability(SelectSeq(ps, Pass)), top_limit)

\* The keys of by_source, in the order of first appearance.
RECURSIVE SourcesOf(_)
SourcesOf(ps) ==
    IF ps = <<>> THEN <<>>
    ELSE LET rest == SourcesOf(SubSeq(ps, 1, Len(ps) - 1))
             src == ps[Len(ps)].source
         IN  IF \E i \in 1..Len(rest) : rest[i] = src THEN rest
             ELSE Append(rest, src)

has_discount_data(ps, src) ==
    \E i \in 1..Len(ps) : ps[i].source = src /\ ps[i].discount > 0

\* What _balance_sources takes from one source.
FromSource(ps, src, min_discount, min_rating, per_source_limit) ==
    LET OfSource(p) == p.source = src
        source_products == SelectSeq(ps, OfSource)
        hdd == has_discount_data(ps, src)
        Pass(p) == /\ (hdd /\ min_discount > 0) => p.discount >= min_discount
                   /\ p.rating >= min_rating
        filtered == SelectSeq(source_products, Pass)
    IN  Take(Items(SortedDesc(Keyed(filtered, hdd))), per_source_limit)

RECURSIVE Concat(_)
Concat(seqs) == IF seqs = <<>> THEN <<>> ELSE Head(seqs) \o Concat(Tail(seqs))

\* ProductFilter._balance_sources
balance_sources(ps, min_discount, min_rating, top_limit) ==
    LET srcs == SourcesOf(ps)
        per_source_limit == IF srcs = <<>> THEN 0
                            ELSE Max(1, top_limit \div Len(srcs))
    IN  Concat([i \in 1..Len(srcs) |->
                  FromSource(ps, srcs[i], min_discount, min_rating,
                             per_source_limit)])

\* ProductFilter.filter
product_filter(ps, min_discount, min_rating, top_limit) ==
    Take(sort_by_profitability(
            balance_sources(ps, min_discount, min_rating, top_limit)),
         top_limit)

IdleStage3 ==
    [pc |-> "idle", products |-> <<>>, min_discount |-> 0, min_rating |-> 0,
     top_limit |-> 1, filtered |-> <<>>, success |-> FALSE, selected |-> <<>>]

\* Stage 3 on the products of a run, under the settings of the deployment;
\* selected is what ProductFilter.filter makes of the same products.
FilterProducts ==
    /\ stage3.pc = "idle"
    /\ \E ps \in ProductLists, md \in MinDiscounts, mr \in MinRatings,
          tl \in TopLimits :
         LET filtered == filter_products(ps, md, mr, tl)
         IN  stage3' = [pc |-> "done", products |-> ps, min_discount |-> md,
                        min_rating |-> mr, top_limit |-> tl,
                        filtered |-> filtered, success |-> filtered # <<>>,
                        selected |-> product_filter(ps, md, mr, tl)]
    /\ UNCHANGED nonStage3Vars

\* Texts are kept by their lengths, in characters as len() counts them.
\* Lengths of the generated descriptions and (price_kgs, old_price_kgs).
ShortDescription == 20
DescLens == {ShortDescription, 970, 971, 3000}
PricePairs == {<<99, 0>>, <<1999, 2999>>}

IdleAlbum ==
    [pc |-> "idle", products |-> <<>>, descriptions |-> <<>>,
     image_paths |-> <<>>, card_paths |-> <<>>, media |-> <<>>]

\* len(str(n))
RECURSIVE Digits(_)
Digits(n) ==
    IF n < 0 THEN 1 + Digits(0 - n)
    ELSE IF n < 10 THEN 1 ELSE 1 + Digits(n \div 10)

\* The old price the caption shows: int(price * 1.4) without a stored one.
old_price(product) ==
    IF product.old_price_kgs > 0 THEN product.old_price_kgs
    ELSE (product.price_kgs * 14) \div 10

\* len(price_block): 47 fixed characters and three numbers.
price_block_len(product) ==
    47 + Digits(old_price(product)) + Digits(product.price_kgs)
       + Digits(old_price(product) - product.price_kgs)

\* A caption: the characters kept of the description, of the "..." that
\* follows a cut description and of the price block, and the "..." that
\* replaces a cut tail.
CaptionLen(c) == c.description + c.dots + c.block + c.tail

max_desc_len_NoMargin(block) == MAX_CAPTION_LENGTH - block
max_desc_len(block) == MAX_CAPTION_LENGTH - block - 10

\* The caption _publish_telegram builds for a product.
build_caption(desc_len, block) ==
    IF desc_len + block > MAX_CAPTION_LENGTH
    THEN [description |-> Min(desc_len, Max(max_desc_len(block), 0)),
          dots |-> 3, block |-> block, tail |-> 0]
    ELSE [description |-> desc_len, dots |-> 0, block |-> block, tail |-> 0]

\* send_media_group: caption[:MAX_CAPTION_LENGTH - 3] + "..." when too long.
fit_caption(c) ==
    IF CaptionLen(c) > MAX_CAPTION_LENGTH
    THEN LET keep == MAX_CAPTION_LENGTH - 3
             dsc == Min(c.description, keep)
             dts == Min(c.dots, keep - dsc)
         IN  [description |-> dsc, dots |-> dts,
              block |-> Min(c.block, keep - dsc - dts), tail |-> 3]
    ELSE c

\* Stage 4, _generate_content, on the products stage 3 returned: one
\* description per product.
GenerateContent ==
    /\ album.pc = "idle"
    /\ \E n \in 1..MaxCards, pp \in PricePairs, d \in DescLens :
       \E k \in 1..n :
         album' = [album EXCEPT
            !.pc = "s5",
            !.products = [i \in 1..n |->
                [id |-> i, price_kgs |-> pp[1], old_price_kgs |-> pp[2]]],
            !.descriptions = [i \in 1..n |->
                IF i = k THEN d ELSE ShortDescription]]
    /\ UNCHANGED nonAlbumVars

\* The ids in ids that are not in failed, in order.
RECURSIVE Downloaded(_, _)
Downloaded(products, failed) ==
    IF products = <<>> THEN <<>>
    ELSE IF Head(products).id \in failed THEN Downloaded(Tail(products), failed)
    ELSE <<Head(products).id>> \o Downloaded(Tail(products), failed)

\* Stage 5, _download_images: the paths of the downloads that succeeded, a
\* path standing for the product whose image it holds.
DownloadImages ==
    /\ album.pc = "s5"
    /\ \E failed \in {f \in SUBSET (1..Len(album.products)) :
                        Cardinality(f) <= MaxFailed} :
         LET paths == Downloaded(album.products, failed)
         IN  album' = [album EXCEPT !.image_paths = paths,
                          !.pc = IF paths = <<>> THEN "failed" ELSE "s6"]
    /\ UNCHANGED nonAlbumVars

\* Stage 6, _create_cards: card i shows the image at image_paths[i] under
\* the prices of products[i]; a card that cannot be drawn is replaced by the
\* plain image (prices 0).
CreateCards ==
    /\ album.pc = "s6"
    /\ LET min_count == Min(Len(album.products), Len(album.image_paths))
       IN \E plain \in 0..min_count :
            album' = [album EXCEPT
                !.card_paths = [i \in 1..min_count |->
                    [image |-> album.image_paths[i],
                     prices |-> IF i = plain THEN 0 ELSE album.products[i].id]],
                !.pc = "s7"]
    /\ UNCHANGED nonAlbumVars

\* Stage 7, _publish_telegram with send_media_group: captions for
\* products[:len(card_paths)], then the album, which the service refuses
\* when it is empty or larger than MAX_MEDIA_GROUP_SIZE.
PublishAlbum ==
    /\ album.pc = "s7"
    /\ LET n == Len(album.card_paths)
           captions == [i \in 1..Min(n, Len(album.products)) |->
                build_caption(album.descriptions[i],
                              price_block_len(album.products[i]))]
       IN IF n = 0 \/ n > MAX_MEDIA_GROUP_SIZE
          THEN album' = [album EXCEPT !.pc = "failed"]
          ELSE \E ok \in BOOLEAN :
                 album' = [album EXCEPT
                    !.media = IF ok
                              THEN [i \in 1..n |->
                                     [image |-> album.card_paths[i].image,
                                      prices |-> album.card_paths[i].prices,
                                      caption_of |-> album.products[i].id,
                                      caption |-> fit_caption(captions[i])]]
                              ELSE <<>>,
                    !.pc = IF ok THEN "sent" ELSE "failed"]
    /\ UNCHANGED nonAlbumVars

(***************************************************************************)
(* Part VII.  ODengiAPI.check_status: decoding the status of a payment.    *)
(***************************************************************************)

\* status_pay of the answer: absent, the PaymentStatus codes, a number that
\* is no PaymentStatus, or a JSON array.
StatusPays == {"absent", "-2", "-1", "0", "1", "2", "3", "4", "7", "[]"}
\* status of the answer: absent, empty, the keys of status_map, one of them
\* in capitals, and a word that is no key.
StatusStrings == {"absent", "", "approved", "paid", "pending", "cancelled",
                  "canceled", "expired", "processing", "APPROVED", "refunded"}

\* PaymentStatus(int(status_pay)); "none" stands for None (not decoded).
PaymentStatusOf(code) ==
    IF code = "0" THEN "PENDING" ELSE IF code = "1" THEN "PAID"
    ELSE IF code = "-1" THEN "CANCELLED" ELSE IF code = "-2" THEN "EXPIRED"
    ELSE IF code = "2" THEN "PROCESSING"
    ELSE IF code = "3" THEN "PARTIAL_REFUND"
    ELSE IF code = "4" THEN "FULL_REFUND" ELSE "none"

\* bool(status): None is false, and so is the IntEnum member of value 0.
Truthy(status) == status \notin {"none", "PENDING"}

\* status_map.get(status_string.lower())
status_map(status_string) ==
    IF status_string \in {"approved", "APPROVED", "paid"} THEN "PAID"
    ELSE IF status_string = "pending" THEN "PENDING"
    ELSE IF status_string \in {"cancelled", "canceled"} THEN "CANCELLED"
    ELSE IF status_string = "expired" THEN "EXPIRED"
    ELSE IF status_string = "processing" THEN "PROCESSING"
    ELSE "none"

\* check_status on an answer: an error answer and an exception (int() of a
\* list) give success=False; otherwise status_pay is decoded first and the
\* string is taken when it is non-empty and `not status`.
check_status(api_error, status_pay, status_string) ==
    IF api_error \/ status_pay = "[]"
    THEN [success |-> FALSE, status |-> "none"]
    ELSE LET status == PaymentStatusOf(status_pay)
         IN  [success |-> TRUE,
              status |-> IF status_string \notin {"absent", ""}
                            /\ ~Truthy(status)
                         THEN status_map(status_string)
                         ELSE status]

IdleStatusCheck ==
    [pc |-> "idle", api_error |-> FALSE, status_pay |-> "absent",
     status_string |-> "absent", result |-> [success |-> FALSE,
                                             status |-> "none"]]

CheckStatus ==
    /\ status_check.pc = "idle"
    /\ \E e \in BOOLEAN, sp \in StatusPays, st \in StatusStrings :
         status_check' = [pc |-> "done", api_error |-> e, status_pay |-> sp,
                          status_string |-> st,
                          result |-> check_status(e, sp, st)]
    /\ UNCHANGED nonStatusVars

DataInit ==
    /\ stage3 = IdleStage3
    /\ album = IdleAlbum
    /\ status_check = IdleStatusCheck

Init ==
    /\ SchedInit /\ PayInit /\ ClientInit /\ CurrencyInit /\ CarouselInit
    /\ DataInit

SchedNext ==
    \/ Start
    \/ Tick
    \/ ProcessJobs
    \/ ManualRun
    \/ \E s \in Slots : JobStep(s)
    \/ \E s \in Slots : CallbackRaises(s)
    \/ \E s \in Slots : FetchCategory(s)
    \/ \E s \in Slots : FetchDone(s)
    \/ \E s \in Slots : ConvertPrices(s)
    \/ \E s \in Slots, k \in 3..6 : Stage(s, k)
    \/ \E s \in Slots : PublishTelegram(s)
    \/ \E s \in Slots : PublishInstagram(s)
    \/ \E s \in Slots : SaveToDb(s)
    \/ \E s \in Slots : NotifyOwner(s)
    \/ \E s \in Slots : Finish(s)
    \/ \E s \in Slots : Return(s)

PayNext ==
    \/ \E p \in PaymentIds : CreateInvoice(p)
    \/ \E p \in PaymentIds : ArrivalInvoice(p)
    \/ \E d \in WebhookPayloads : Webhook(d)
    \/ \E p \in PaymentIds : ConfirmPayment(p)
    \/ \E i \in Procs : FinGet(i)
    \/ \E i \in Procs : FinUpdate(i)
    \/ \E i \in Procs : FinNotify(i)
    \/ \E i \in Procs : FinReturn(i)

ClientNext ==
    \/ DateChange
    \/ \E c \in Callers : FetchProducts(c)
    \/ \E c \in Callers : HttpAttempt(c)
    \/ \E c \in Callers : FetchReturn(c)

CurrencyNext ==
    \/ CacheExpire
    \/ GetRate
    \/ ApiFetch
    \/ SaveRate
    \/ FallbackToDb
    \/ LookupReturn

PostNext ==
    \/ CreatePost
    \/ \E i \in 1..MaxPosts : UpdateInstagramId(i)
    \/ \E i \in 1..MaxPosts : MarkInstagramFailed(i)
    \/ \E i \in 1..MaxPosts : MarkTelegramOnly(i)

CarouselNext ==
    \/ \E n \in 1..MaxImages : PublishCarousel(n)
    \/ GetAccountId
    \/ CreateImageContainer
    \/ CreateCarouselContainer
    \/ CheckContainerStatus
    \/ PublishContainer
    \/ CarouselReturn

FilterNext == FilterProducts

StatusNext == CheckStatus

AlbumNext ==
    \/ GenerateContent
    \/ DownloadImages
    \/ CreateCards
    \/ PublishAlbum

Next == \/ SchedNext \/ PayNext \/ ClientNext \/ CurrencyNext \/ PostNext
        \/ CarouselNext \/ FilterNext \/ AlbumNext \/ StatusNext

\* The product cache plays no part in the payments and in the marketplace
\* client; their specifications start with it empty.
EmptyCacheInit == Init /\ cached = [c \in Categories |-> FALSE]

SchedSpec == Init /\ [][SchedNext]_vars
PaySpec == EmptyCacheInit /\ [][PayNext]_vars
ClientSpec == EmptyCacheInit /\ [][ClientNext]_vars
CurrencySpec == Init /\ [][CurrencyNext]_vars
PostSpec == EmptyCacheInit /\ [][PostNext]_vars
CarouselSpec == EmptyCacheInit /\ [][CarouselNext]_vars

\* Every step of publish_carousel is an awaited HTTP call with a timeout
\* or a sleep of CONTAINER_CHECK_INTERVAL: a call in flight goes on.
CarouselLive ==
    /\ CarouselSpec
    /\ WF_vars(GetAccountId)
    /\ WF_vars(CreateImageContainer)
    /\ WF_vars(CreateCarouselContainer)
    /\ WF_vars(CheckContainerStatus)
    /\ WF_vars(PublishContainer)
FilterSpec == EmptyCacheInit /\ [][FilterNext]_vars
AlbumSpec == EmptyCacheInit /\ [][AlbumNext]_vars
StatusSpec == EmptyCacheInit /\ [][StatusNext]_vars

Spec == Init /\ [][Next]_vars

(***************************************************************************)
(* Properties.                                                             *)
(***************************************************************************)

ScheduledInstances == {s \in Slots : slots[s].origin = "sched" /\ slots[s].pc # "idle"}

\* C1: at no time is more than one instance of the scheduled job alive, so
\* no two runs launched by the scheduler are ever active together; a firing
\* that arrives while the gate is taken is dropped.
C1_SingleScheduledRun ==
    /\ Cardinality(ScheduledInstances) <= 1
    /\ Cardinality(ScheduledRuns) <= 1

\* A firing was dropped on this day while a run was executing.
C1_Witness ==
    /\ last_event = "max_instances"
    /\ next_run_time = clock + 1
    /\ ScheduledRuns # {}

\* C2 (as claimed): the PENDING -> PAID transition of a payment is applied
\* by at most one invocation of finalise.
C2_AtMostOneTransition == \A p \in PaymentIds : row_updates[p] <= 1

\* C3 (as claimed): finalise produces at most one round of operator
\* notifications per payment_id, however often it is invoked.
C3_AtMostOneNotification == \A p \in PaymentIds : admin_notes[p] <= 1

HashMismatch(data) ==
    data.hash # Sign(data.order_id, data.status_pay, Password)

\* C4 (as claimed): a webhook payload that carries a hash field which does
\* not match the recomputed HMAC is rejected, so finalise is not invoked.
C4_MismatchRejected ==
    (last_webhook.data.hash.kind # "absent" /\ HashMismatch(last_webhook.data))
        => last_webhook.outcome = "rejected"

\* C4 (amended): a webhook payload that carries a non-empty hash field which
\* does not match the recomputed HMAC is rejected, so finalise is not
\* invoked, whatever status the payload carries.
C4_SignedMismatchRejected ==
    (last_webhook.data.hash.kind = "mac" /\ HashMismatch(last_webhook.data))
        => last_webhook.outcome = "rejected"

\* A forged PAID event for an invoice that is waiting for payment was
\* rejected and the invoice is still PENDING.
C4_Witness ==
    /\ last_webhook.outcome = "rejected"
    /\ last_webhook.data.status_pay = "1"
    /\ last_webhook.data.order_id \in PaymentIds
    /\ payments[last_webhook.data.order_id].status = "PENDING"
    /\ \A i \in Procs : fin[i].pc = "idle"

StageFailed(s, k) ==
    \E i \in 1..Len(slots[s].stages) : slots[s].stages[i] = StageResult(k, FALSE)

\* C5: when one of the stages 1..7 fails the run ends there: no later stage
\* is recorded, nothing is published after it, no Post row is written and
\* the result is a failure whose failed_stage is that stage.
C5_FatalStagesAbort ==
    \A s \in Slots, k \in 1..7 :
        StageFailed(s, k) =>
            /\ slots[s].pc = "done"
            /\ slots[s].result = "failed"
            /\ failed_stage(s) = k
            /\ Len(slots[s].stages) = k
            /\ slots[s].post = "none"
            /\ slots[s].published \subseteq (IF k = 7 THEN {"intro"} ELSE {})

\* A run was aborted by a failure of a stage after the first.
C5_Witness ==
    \E s \in Slots, k \in 2..7 : StageFailed(s, k) /\ slots[s].pc = "done"

\* C6: a failed stage 8 does not end the run: stages 9 and 10 follow, the
\* row that stage 9 stores has status instagram_failed and the run reports
\* success.
C6_MirrorFailureNotFatal ==
    \A s \in Slots :
        StageFailed(s, 8) =>
            /\ slots[s].pc \in {"s9", "s10", "fin", "done"}
            /\ slots[s].result # "failed"
            /\ slots[s].post \in {"none", "instagram_failed"}
            /\ slots[s].pc \in {"s10", "fin", "done"} =>
                  /\ Len(slots[s].stages) >= 9
                  /\ slots[s].stages[9].stage = 9
                  /\ slots[s].stages[9].success =>
                        slots[s].post = "instagram_failed"
            /\ slots[s].pc = "done" =>
                  /\ slots[s].result = "ok"
                  /\ Len(slots[s].stages) = 10
                  /\ slots[s].stages[10].stage = 10

\* A run whose mirror publish failed finished with the row stored.
C6_Witness ==
    \E s \in Slots :
        /\ StageFailed(s, 8)
        /\ slots[s].pc = "done"
        /\ slots[s].post = "instagram_failed"
        /\ "album" \in slots[s].published

\* C7 (as claimed): a run that ends in a fatal abort has sent the owners an
\* error notification that names the failing stage.
C7_AbortNotified ==
    \A s \in Slots :
        (slots[s].pc = "done" /\ slots[s].result = "failed") =>
            ErrorNote(StageName(failed_stage(s))) \in slots[s].notified

\* C8 (as claimed): when the fetch for a category key fails and the
\* CachedProductSet of that key has products, the run uses them and records
\* the cached-products fallback.
C8_CacheFallback ==
    \A s \in Slots :
        \A c \in 1..Len(slots[s].category_results) :
            (slots[s].category_results[c] # "ok" /\ cached[c]) =>
                /\ c \in slots[s].cache_used
                /\ Contains(slots[s].fallbacks_used, "pinduoduo_cached")

C11_StaysArmed ==
    /\ [](run_raised => (is_running /\ next_run_time > 0))
    /\ []((\A s \in Slots : slots[s].pc = "idle") => instances = 0)
    /\ [][(run_raised /\ next_run_time' > next_run_time /\ instances = 0)
            => (last_event' = "submitted" /\ ScheduledInstances' # {})]_vars

\* After a run that raised, a later firing has started a new run.
C11_Witness ==
    /\ run_raised
    /\ \E s \in Slots : slots[s].origin = "sched" /\ slots[s].pc = "s2"

\* C12 (as claimed): the row stage 9 stores is published when both publish
\* calls succeeded, instagram_failed when the mirror was attempted and only
\* the broadcast succeeded, and telegram_only when mirroring was skipped by
\* configuration.
C12_StatusMapping ==
    \A s \in Slots :
        slots[s].post # "none" =>
            slots[s].post =
                IF slots[s].telegram_id # 0 /\ slots[s].instagram_id # 0
                THEN "published"
                ELSE IF slots[s].instagram THEN "instagram_failed"
                ELSE "telegram_only"

\* C13: a call of fetch_products that starts while today's request counter
\* equals the limit raises RateLimitExceededError at once: it leaves the
\* counter as it is and sends no request upstream.
C13_RateLimitFailsFast ==
    /\ [](\A c \in Callers : calls[c].pc = "rate_limited" => calls[c].attempts = 0)
    /\ [][\A c \in Callers :
            (/\ calls[c].pc = "idle" /\ calls'[c].pc # "idle"
             /\ request_date = today /\ request_count = DAILY_RATE_LIMIT)
            => (/\ calls'[c] = [pc |-> "rate_limited", attempts |-> 0]
                /\ request_count' = request_count)]_vars

\* A call was refused with the counter at the limit.
C13_Witness ==
    /\ request_count = DAILY_RATE_LIMIT
    /\ request_date = today
    /\ \E c \in Callers : calls[c].pc = "rate_limited"

\* C14: a rate lookup consults the cache, then the external endpoint, then
\* storage, in that order: the endpoint is called only when the cache had no
\* entry, and storage is read only when the external fetch failed.
C14_LookupOrder ==
    /\ lookup.consulted \in {<<>>, <<"cache">>, <<"cache", "api">>,
                              <<"cache", "api", "db">>}
    /\ Contains(lookup.consulted, "api") => lookup.seen = 0
    /\ Contains(lookup.consulted, "db") => lookup.api = "failed"
    /\ (lookup.pc = "returned" /\ lookup.seen # 0) =>
          (lookup.consulted = <<"cache">> /\ lookup.rate = lookup.seen)

\* A lookup went through all three sources and returned the stored rate.
C14_Witness ==
    /\ lookup.pc = "returned"
    /\ lookup.consulted = <<"cache", "api", "db">>
    /\ lookup.rate = db_rate
    /\ db_rate # 0

\* C15 (as claimed): a run whose stage 2 converted the prices with the rate
\* taken from storage, because the external endpoint failed, has stage 2
\* recorded as a success and ends with the currency fallback in its
\* fallbacks_used.
C15_CurrencyFallbackRecorded ==
    \A s \in Slots :
        slots[s].rate_source = "db" =>
            /\ slots[s].stages[2] = StageResult(2, TRUE)
            /\ (slots[s].pc = "done" /\ slots[s].result = "ok") =>
                  Contains(slots[s].fallbacks_used, "currency_db")

Handled == last_webhook.outcome # "none"

Verified(data) ==
    data.hash.kind \in {"absent", "empty"}
        \/ data.hash = Sign(data.order_id, data.status_pay, Password)

\* C16 (as claimed): a verified webhook whose status is anything other than
\* PAID is acknowledged with an ok response and ignored.
C16_NonPaidAcknowledged ==
    (Handled /\ Verified(last_webhook.data)
             /\ last_webhook.data.status_pay # "1")
        => last_webhook.outcome = "ignored"

\* C16 (amended): a verified webhook that names an order and whose
\* status_pay is absent or a number or string other than PAID's is
\* acknowledged with an ok response and ignored: handling it starts no
\* invocation of finalise and leaves every payments row as it was.
C16_NonPaidWithOrderIgnored ==
    /\ []((Handled /\ Verified(last_webhook.data)
                   /\ last_webhook.data.order_id # "absent"
                   /\ last_webhook.data.status_pay \notin {"1", "[]"})
            => last_webhook.outcome = "ignored")
    /\ [][(last_webhook' # last_webhook /\ last_webhook'.outcome = "ignored")
            => (payments' = payments /\ fin' = fin
                /\ invocations' = invocations)]_vars

\* A signed PENDING event for an invoice that is waiting for payment was
\* acknowledged and ignored.
C16_Witness ==
    /\ last_webhook.outcome = "ignored"
    /\ last_webhook.data.hash.kind = "mac"
    /\ last_webhook.data.status_pay = "0"
    /\ last_webhook.data.order_id \in PaymentIds
    /\ payments[last_webhook.data.order_id].status = "PENDING"
    /\ invocations = 0

\* C17: a webhook payload without a hash field is not rejected for lack of
\* a signature: verification answers true and the payload is handled by
\* its order id and status like a signed one.
C17_MissingHashAccepted ==
    (Handled /\ last_webhook.data.hash.kind = "absent") =>
        /\ verify_callback_signature(last_webhook.data)
        /\ last_webhook.data.status_pay # "[]"
                => last_webhook.outcome # "rejected"
        /\ (last_webhook.data.order_id # "absent"
             /\ last_webhook.data.status_pay = "1")
                => last_webhook.outcome = "finalise"

\* An unsigned PAID event started finalise.
C17_Witness ==
    /\ last_webhook.data.hash.kind = "absent"
    /\ last_webhook.outcome = "finalise"
    /\ \E i \in Procs : fin[i].pc # "idle" /\ fin[i].origin = "webhook"

\* C18 (as claimed): an invoice's row is created in status PENDING, and once
\* the QR message has been sent to the user the row holds the id of that
\* message, so that finalise can delete the message.
C18_MessageIdRecorded ==
    \A p \in PaymentIds :
        (payments[p].status # "NONE" /\ qr_msgs[p] # "none") =>
            payments[p].message_id # 0

RowConsistent(row) ==
    /\ row.status = "published" =>
          (row.telegram_message_id # 0 /\ row.instagram_post_id # 0)
    /\ row.status = "telegram_only" =>
          (row.telegram_message_id # 0 /\ row.instagram_post_id = 0)
    /\ row.status = "instagram_failed" =>
          (row.telegram_message_id # 0 /\ row.mirror_attempted
           /\ row.instagram_post_id = 0)

\* C19 (as claimed): every stored Post row agrees with its id columns at all
\* times, repository status updates included: published has both ids,
\* telegram_only has the telegram id and no instagram id, instagram_failed
\* has the telegram id, an attempted mirror and no instagram id.
C19_RowsConsistent ==
    \A i \in 1..Len(posts) : RowConsistent(posts[i])

\* C20: in a carousel publish the publish call is issued only after every
\* child container and the carousel container were created and a status
\* poll answered FINISHED; when the creation of a child fails the publish
\* ends as failed with no carousel container created and nothing published.
C20_PublishAfterFinished ==
    /\ carousel.pc = "publish" \/ carousel.publish_calls > 0 =>
          /\ carousel.children = carousel.images
          /\ carousel.carousel_created
          /\ carousel.finished
    /\ carousel.carousel_created => carousel.children = carousel.images
    /\ carousel.publish_calls <= 1
    /\ carousel.child_failed =>
          /\ carousel.pc = "done"
          /\ carousel.result = "failed"
          /\ ~carousel.carousel_created
          /\ carousel.publish_calls = 0

\* A carousel was published after the container was polled more than once.
C20_Witness ==
    /\ carousel.result = "ok"
    /\ carousel.publish_calls = 1
    /\ carousel.checks >= 2
    /\ carousel.images >= MIN_CAROUSEL_ITEMS

\* C21: every carousel publish ends (done, with result ok or failed);
\* polling ends as failed as soon as a poll answers ERROR or when
\* MAX_CONTAINER_CHECKS polls went by without FINISHED, so no publish makes
\* more than MAX_CONTAINER_CHECKS polls.
C21_PublishTerminates ==
    /\ [](carousel.checks <= MAX_CONTAINER_CHECKS)
    /\ []((carousel.status = "ERROR"
            \/ (carousel.checks = MAX_CONTAINER_CHECKS /\ ~carousel.finished))
           => (carousel.pc = "done" /\ carousel.result = "failed"
               /\ carousel.publish_calls = 0))
    /\ (carousel.pc # "idle") ~> (carousel.pc = "done")

\* A publish gave up after MAX_CONTAINER_CHECKS polls that all found the
\* container in progress.
C21_Witness ==
    /\ carousel.checks = MAX_CONTAINER_CHECKS
    /\ carousel.status = "IN_PROGRESS"
    /\ carousel.pc = "done"
    /\ carousel.result = "failed"

C29_SkippedMirrorSilent ==
    \A s \in Slots :
        (/\ ~slots[s].instagram
         /\ slots[s].pc = "done"
         /\ slots[s].result = "ok"
         /\ slots[s].cache_used = {}
         /\ slots[s].rate_source # "db") =>
            /\ slots[s].fallbacks_used = <<>>
            /\ ErrorNote("fallback") \notin slots[s].notified

\* The discount floor does not apply to a source none of whose products in
\* the run has a positive discount.
Waived(src) == ~has_discount_data(stage3.products, src)

ActiveFilters(p) ==
    /\ p.rating >= stage3.min_rating
    /\ p.discount >= stage3.min_discount \/ Waived(p.source)

\* C23: stage 3 returns at most top_limit products, and each of them has a
\* rating of at least min_rating and a discount of at least min_discount;
\* ProductFilter.filter keeps to the same limit and floors, except that it
\* waives the discount floor for a source without positive discounts.
C23_FilterBounds ==
    stage3.pc = "done" =>
        /\ Len(stage3.filtered) <= stage3.top_limit
        /\ \A i \in 1..Len(stage3.filtered) :
              /\ stage3.filtered[i].rating >= stage3.min_rating
              /\ stage3.filtered[i].discount >= stage3.min_discount
        /\ Len(stage3.selected) <= stage3.top_limit
        /\ \A i \in 1..Len(stage3.selected) : ActiveFilters(stage3.selected[i])

\* More products passed the floors than the limit lets through, and stage 3
\* dropped one for its discount and one for its rating.
C23_Witness ==
    /\ stage3.pc = "done"
    /\ Len(stage3.filtered) = stage3.top_limit
    /\ \E i \in 1..Len(stage3.products) :
          stage3.products[i].discount < stage3.min_discount
    /\ Cardinality({i \in 1..Len(stage3.products) :
                       /\ stage3.products[i].rating >= stage3.min_rating
                       /\ stage3.products[i].discount >= stage3.min_discount})
          > stage3.top_limit
    /\ \E i \in 1..Len(stage3.products) :
          stage3.products[i].rating < stage3.min_rating

\* C24: a media group that stage 7 sent has between 1 and
\* MAX_MEDIA_GROUP_SIZE items, and each caption sent with it is at most
\* MAX_CAPTION_LENGTH long and ends with the whole price block of its
\* product: only the description is ever cut.
C24_AlbumWithinLimits ==
    album.pc = "sent" =>
        /\ Len(album.media) \in 1..MAX_MEDIA_GROUP_SIZE
        /\ \A i \in 1..Len(album.media) :
              LET c == album.media[i].caption
              IN  /\ CaptionLen(c) <= MAX_CAPTION_LENGTH
                  /\ c.block = price_block_len(album.products[i])
                  /\ c.tail = 0
                  /\ c.description < album.descriptions[i] => c.dots = 3

\* An album of MAX_MEDIA_GROUP_SIZE items went out and one of its captions
\* had its description cut.
C24_Witness ==
    /\ album.pc = "sent"
    /\ Len(album.media) = MAX_MEDIA_GROUP_SIZE
    /\ \E i \in 1..Len(album.media) :
          /\ album.media[i].caption.description < album.descriptions[i]
          /\ album.media[i].caption.dots = 3

\* C28 (as claimed): when some but not all downloads of stage 5 failed,
\* every item of the media group shows the image of the product whose
\* description and prices make up its caption.
C28_ImageMatchesCaption ==
    (/\ album.pc = "sent"
     /\ Len(album.image_paths) < Len(album.products)) =>
        \A i \in 1..Len(album.media) :
            album.media[i].image = album.media[i].caption_of

\* C25 (as claimed): the status of a stored Post row changes in one way
\* only, from instagram_failed to published; a row that is published or
\* telegram_only keeps its status for good.
C25_StatusFinal ==
    [][\A i \in 1..Len(posts) :
          posts'[i].status # posts[i].status =>
              (posts[i].status = "instagram_failed"
               /\ posts'[i].status = "published")]_vars

\* Requests known to have gone upstream on the current date: the ones the
\* counter shows for today and the ones it missed.
SentToday ==
    (IF request_date = today THEN request_count ELSE 0) + uncounted

\* C26 (as claimed): on no calendar day does the client send more than
\* DAILY_RATE_LIMIT requests upstream, failed requests and the requests of
\* overlapping fetch calls included.
C26_DailyRequestsCapped == SentToday <= DAILY_RATE_LIMIT

\* C27 (as claimed): finalise sends the success message to the user,
\* notifies the operators and returns true only when the row has become
\* PAID; when the update fails there is no success side effect and no true
\* result.
C27_SuccessOnlyWhenPaid ==
    \A p \in PaymentIds :
        (\/ user_msgs[p] > 0
         \/ admin_notes[p] > 0
         \/ \E i \in Procs : /\ fin[i].payment_id = p
                              /\ fin[i].pc = "done"
                              /\ fin[i].ret)
            => payments[p].status = "PAID"

\* C30 (as claimed): in an answer that check_status decodes, a status_pay
\* that is a PaymentStatus code decides the status, code 0 (PENDING)
\* included, whatever the string says; the string is used only when
\* status_pay is absent or is no known code.
C30_NumericStatusWins ==
    (status_check.pc = "done" /\ status_check.result.success) =>
        status_check.result.status =
            IF PaymentStatusOf(status_check.status_pay) # "none"
            THEN PaymentStatusOf(status_check.status_pay)
            ELSE status_map(status_check.status_string)

====
